---------------------------- MODULE Spec2Model ----------------------------
(***************************************************************************)
(* A model of src/src/jira-mcp.ts: the Jira API client (getJiraConfig,     *)
(* jiraRequest, jiraApi) and the command layer (commands.*.run).           *)
(*                                                                         *)
(* One command invocation is in progress at a time.  An invocation runs    *)
(* synchronously up to its first await that suspends, which is the await   *)
(* of fetch() inside jiraRequest; so validation, the configuration read    *)
(* and the dispatch of every HTTP request of the invocation happen in one  *)
(* step (Invoke).  Each response then resumes one continuation (Respond),  *)
(* which runs to the end of the enclosing async function.  Between those   *)
(* steps the process environment may change (ConfigChange).                *)
(***************************************************************************)
EXTENDS Integers, Sequences, FiniteSets, TLC

VARIABLES
    env,        \* process.env: JIRA_BASE_URL, JIRA_EMAIL, JIRA_API_TOKEN
    pc,         \* "idle" | "waiting" | "done": the invocation's position
    cmd,        \* name of the command invoked
    input,      \* its input object
    slots,      \* one entry per jiraApi call of the invocation: the calls of
                \* fetch made for it, the request, the response
    outcomes,   \* the settled value of each awaited promise, by input position
    result,     \* what run returned (or threw)
    remote      \* number of state-changing requests the remote has accepted

vars == <<env, pc, cmd, input, slots, outcomes, result, remote>>

---------------------------------------------------------------------------
(* Bounds of the model *)

MaxItems == 2
MaxBlocks == 2
MaxNodes == 2
MaxRemoteOps == 2

---------------------------------------------------------------------------
(* JavaScript values *)

\* undefined and null, among string-valued properties
Undefined == "<undefined>"
Null == "<null>"
\* the value null where an object was expected (a JSON body that is null)
JsNull == [jsnull |-> TRUE]

\* ToBoolean of a string-valued property
Truthy(v) == v # Undefined /\ v # Null /\ v # ""
\* ToString of a value inside a template literal
Str(v) == IF v = Undefined THEN "undefined" ELSE IF v = Null THEN "null" ELSE v
\* v || d
OrElse(v, d) == IF Truthy(v) THEN v ELSE d

\* completions of a function: a returned value or a thrown Error
Return(v) == [kind |-> "return", value |-> v]
Throw(m) == [kind |-> "throw", message |-> m]
Pending == [kind |-> "pending"]

\* a property of an object literal as JSON.stringify writes it: a property
\* whose value is undefined is left out
Prop(k, v) == IF v = Undefined THEN <<>> ELSE k :> v
EmptyObject == <<>>
\* JSON.stringify(obj): a string holding obj's defined properties
JSONstringify(obj) == [type |-> "string", json |-> obj]
NoBody == [type |-> "undefined"]

\* Array.prototype.join: undefined and null elements are written as ""
RECURSIVE ArrayJoinFrom(_, _, _)
ArrayJoinFrom(arr, sep, k) ==
    IF k > Len(arr) THEN ""
    ELSE (IF k > 1 THEN sep ELSE "")
         \o (IF arr[k] = Undefined \/ arr[k] = Null THEN "" ELSE arr[k])
         \o ArrayJoinFrom(arr, sep, k + 1)
ArrayJoin(arr, sep) == ArrayJoinFrom(arr, sep, 1)

\* the sequences over S of length 0..n
SeqsUpTo(S, n) == UNION {[1..k -> S] : k \in 0..n}

---------------------------------------------------------------------------
(* Configuration *)

BaseUrl == "https://jira.test"
Email == "me@jira.test"
Token == "tok"

Envs == [JIRA_BASE_URL : {Undefined, BaseUrl},
         JIRA_EMAIL : {"", Email},
         JIRA_API_TOKEN : {Undefined, Token}]

ConfigErrorMessage ==
    "Missing required Jira environment variables. Please set JIRA_BASE_URL, JIRA_EMAIL, and JIRA_API_TOKEN."

\* a check of the base URL alone
getJiraConfig_baseUrlOnly(e) ==
    LET JIRA_BASE_URL == OrElse(e.JIRA_BASE_URL, "")
        JIRA_EMAIL == OrElse(e.JIRA_EMAIL, "")
        JIRA_API_TOKEN == OrElse(e.JIRA_API_TOKEN, "")
    IN  IF JIRA_BASE_URL = ""
        THEN Throw(ConfigErrorMessage)
        ELSE Return([JIRA_BASE_URL |-> JIRA_BASE_URL,
                     JIRA_EMAIL |-> JIRA_EMAIL,
                     JIRA_API_TOKEN |-> JIRA_API_TOKEN])

getJiraConfig(e) ==
    LET JIRA_BASE_URL == OrElse(e.JIRA_BASE_URL, "")
        JIRA_EMAIL == OrElse(e.JIRA_EMAIL, "")
        JIRA_API_TOKEN == OrElse(e.JIRA_API_TOKEN, "")
    IN  IF JIRA_BASE_URL = "" \/ JIRA_EMAIL = "" \/ JIRA_API_TOKEN = ""
        THEN Throw(ConfigErrorMessage)
        ELSE Return([JIRA_BASE_URL |-> JIRA_BASE_URL,
                     JIRA_EMAIL |-> JIRA_EMAIL,
                     JIRA_API_TOKEN |-> JIRA_API_TOKEN])

---------------------------------------------------------------------------
(* jiraRequest, up to the call of fetch *)

\* Buffer.from(s).toString('base64'), kept symbolic
Base64(s) == "base64(" \o s \o ")"

\* the body fetch is given: a string or binary body, nothing otherwise
SafeBody(body) ==
    IF body.type \in {"string", "Buffer", "Uint8Array"} THEN body ELSE NoBody

\* options: [method, headers, body]; the result is the request handed to
\* fetch, or the configuration error thrown before it
jiraRequest(path, options, e) ==
    LET cfg == getJiraConfig(e) IN
    IF cfg.kind = "throw" THEN cfg
    ELSE LET c == cfg.value
             auth == Base64(c.JIRA_EMAIL \o ":" \o c.JIRA_API_TOKEN)
             baseHeaders == ("Authorization" :> ("Basic " \o auth))
                            @@ ("Accept" :> "application/json")
         IN  Return([url |-> c.JIRA_BASE_URL \o path,
                     path |-> path,
                     method |-> options.method,
                     headers |-> options.headers @@ baseHeaders,
                     body |-> SafeBody(options.body)])

(* jiraRequest, from the response of fetch on *)

\* r: [fetch, ok, status, text, json]: what fetch, res.ok, res.status,
\* res.text() and res.json() give
jiraRequestAwait(r) ==
    IF r.fetch = "rejected" THEN Throw(r.text)
    ELSE IF ~r.ok THEN Throw("Jira API error: " \o r.status \o " " \o r.text)
    ELSE r.json

---------------------------------------------------------------------------
(* jiraApi: each operation up to its request *)

NoOptions == [method |-> Undefined, headers |-> EmptyObject, body |-> NoBody]
JsonHeaders == "Content-Type" :> "application/json"
IssuePath == "/rest/api/3/issue"
SearchPath == "/rest/api/3/search"

\* getIssue written from deleteIssue, its method left in
jiraApi_getIssue_delete(issueKey, e) ==
    jiraRequest(IssuePath \o "/" \o Str(issueKey),
                [method |-> "DELETE", headers |-> EmptyObject, body |-> NoBody], e)

jiraApi_getIssue(issueKey, e) ==
    jiraRequest(IssuePath \o "/" \o Str(issueKey), NoOptions, e)

jiraApi_createIssue(in, e) ==
    LET fields ==
            ("project" :> Prop("key", in.projectKey))
            @@ Prop("summary", in.summary)
            @@ ("issuetype" :> Prop("name", in.issueType))
            @@ (IF Truthy(in.description) THEN "description" :> in.description ELSE <<>>)
            @@ (IF Truthy(in.assignee) THEN "assignee" :> [name |-> in.assignee] ELSE <<>>)
            @@ (IF Truthy(in.priority) THEN "priority" :> [name |-> in.priority] ELSE <<>>)
            @@ (IF Truthy(in.epicLink) THEN "customfield_10008" :> in.epicLink ELSE <<>>)
            @@ (IF Truthy(in.parent) THEN "parent" :> [key |-> in.parent] ELSE <<>>)
    IN  jiraRequest(IssuePath,
                    [method |-> "POST", headers |-> JsonHeaders,
                     body |-> JSONstringify("fields" :> fields)], e)

jiraApi_addWorklog(issueKey, timeSpent, comment, e) ==
    LET body == Prop("timeSpent", timeSpent)
                @@ (IF Truthy(comment) THEN "comment" :> comment ELSE <<>>)
    IN  jiraRequest(IssuePath \o "/" \o Str(issueKey) \o "/worklog",
                    [method |-> "POST", headers |-> JsonHeaders,
                     body |-> JSONstringify(body)], e)

\* fields: [defined, obj]
jiraApi_updateIssue(issueIdOrKey, fields, e) ==
    jiraRequest(IssuePath \o "/" \o Str(issueIdOrKey),
                [method |-> "PUT", headers |-> JsonHeaders,
                 body |-> JSONstringify(IF fields.defined THEN "fields" :> fields.obj
                                        ELSE EmptyObject)], e)

jiraApi_deleteIssue(issueIdOrKey, e) ==
    jiraRequest(IssuePath \o "/" \o Str(issueIdOrKey),
                [method |-> "DELETE", headers |-> EmptyObject, body |-> NoBody], e)

\* maxResults: [defined, n]
jiraApi_listIssues(jql, maxResults, e) ==
    LET body == (IF Truthy(jql) THEN "jql" :> jql ELSE <<>>)
                @@ (IF maxResults.defined /\ maxResults.n # 0
                    THEN "maxResults" :> maxResults.n ELSE <<>>)
    IN  jiraRequest(SearchPath,
                    [method |-> "POST", headers |-> JsonHeaders,
                     body |-> JSONstringify(body)], e)

---------------------------------------------------------------------------
(* Inputs of the commands *)

Commands == {"getIssueDetails", "createIssue", "transitionIssue", "batchCreateIssues",
             "logWork", "createTask", "getTask", "updateTask", "deleteTask", "listTasks"}

IdValues == {Undefined, "", "PROJ-123"}
ProjectKeys == {Undefined, "", "PROJ"}
Summaries == {Undefined, "Test Ticket"}
IssueTypes == {Undefined, "Task"}

\* the optional fields of createIssue: none, or all of them
Optionals ==
    {[description |-> Undefined, assignee |-> Undefined, priority |-> Undefined,
      epicLink |-> Undefined, parent |-> Undefined],
     [description |-> "Sample Desc", assignee |-> "user1", priority |-> "High",
      epicLink |-> "EPIC-1", parent |-> "PROJ-100"]}

BatchItems ==
    {[summary |-> "Task 1", description |-> Undefined, issueType |-> "Task",
      assignee |-> Undefined],
     [summary |-> "Task 2", description |-> "Desc 2", issueType |-> "Bug",
      assignee |-> "user2"]}

\* input.issues: not an array, or an array of items
IssueArrays ==
    {[isArray |-> FALSE, items |-> <<>>]}
    \cup {[isArray |-> TRUE, items |-> s] : s \in SeqsUpTo(BatchItems, MaxItems)}

Inputs(c) ==
    CASE c \in {"getIssueDetails", "getTask", "deleteTask"} ->
            [issueIdOrKey : IdValues]
      [] c = "createIssue" ->
            {[projectKey |-> p, summary |-> s, issueType |-> t,
              description |-> o.description, assignee |-> o.assignee,
              priority |-> o.priority, epicLink |-> o.epicLink, parent |-> o.parent] :
                p \in ProjectKeys, s \in Summaries, t \in IssueTypes, o \in Optionals}
      [] c = "createTask" ->
            [summary : Summaries, description : {Undefined, "Sample Desc"},
             projectKey : ProjectKeys, issueType : IssueTypes]
      [] c = "transitionIssue" ->
            [issueIdOrKey : {Undefined, "PROJ-123"}, transitionId : {Undefined, "31"}]
      [] c = "batchCreateIssues" ->
            [projectKey : ProjectKeys, issues : IssueArrays]
      [] c = "logWork" ->
            [issueKey : {Undefined, "PROJ-123"}, timeSpent : {Undefined, "", "2h"},
             comment : {Undefined, "Worked on bugfix"}]
      [] c = "updateTask" ->
            [issueIdOrKey : {Undefined, "PROJ-123"},
             fields : {[defined |-> FALSE, obj |-> EmptyObject],
                       [defined |-> TRUE, obj |-> "summary" :> "Updated"]}]
      [] c = "listTasks" ->
            [jql : {Undefined, "project=PROJ"},
             maxResults : {[defined |-> FALSE, n |-> 0], [defined |-> TRUE, n |-> 0],
                           [defined |-> TRUE, n |-> 5]}]

\* the parameters each command declares required: true, and whether the
\* input leaves one of them missing or empty
MissingRequired(c, in) ==
    CASE c \in {"getIssueDetails", "getTask", "deleteTask"} -> ~Truthy(in.issueIdOrKey)
      [] c \in {"createIssue", "createTask"} ->
            ~Truthy(in.projectKey) \/ ~Truthy(in.summary) \/ ~Truthy(in.issueType)
      [] c = "transitionIssue" -> ~Truthy(in.issueIdOrKey) \/ ~Truthy(in.transitionId)
      [] c = "batchCreateIssues" ->
            ~Truthy(in.projectKey) \/ ~in.issues.isArray \/ Len(in.issues.items) = 0
      [] c = "logWork" -> ~Truthy(in.issueKey) \/ ~Truthy(in.timeSpent)
      [] c = "updateTask" -> ~Truthy(in.issueIdOrKey) \/ ~in.fields.defined
      [] c = "listTasks" -> FALSE

---------------------------------------------------------------------------
(* What the remote may answer *)

\* a rich-text description: [defined, hasContent, content], content a
\* sequence of blocks [hasContent, content], whose content is a sequence of
\* nodes, each the node's text (Undefined for a node without text)
NodeTexts == {Undefined, "a", "b"}
Blocks ==
    {[hasContent |-> FALSE, content |-> <<>>]}
    \cup {[hasContent |-> TRUE, content |-> n] : n \in SeqsUpTo(NodeTexts, MaxNodes)}
Docs ==
    {[defined |-> FALSE, hasContent |-> FALSE, content |-> <<>>],
     [defined |-> TRUE, hasContent |-> FALSE, content |-> <<>>]}
    \cup {[defined |-> TRUE, hasContent |-> TRUE, content |-> b] :
            b \in SeqsUpTo(Blocks, MaxBlocks)}

IssueKeys == {"PROJ-1", "PROJ-2"}

\* the descriptions offered where the description is not what is examined:
\* absent, without content, no block, [["a","b"],["c"]], a block without
\* content, a node without text
SampleDocs ==
    {[defined |-> FALSE, hasContent |-> FALSE, content |-> <<>>],
     [defined |-> TRUE, hasContent |-> FALSE, content |-> <<>>],
     [defined |-> TRUE, hasContent |-> TRUE, content |-> <<>>],
     [defined |-> TRUE, hasContent |-> TRUE, content |->
        <<[hasContent |-> TRUE, content |-> <<"a", "b">>],
          [hasContent |-> TRUE, content |-> <<"c">>]>>],
     [defined |-> TRUE, hasContent |-> TRUE, content |->
        <<[hasContent |-> FALSE, content |-> <<>>],
          [hasContent |-> TRUE, content |-> <<Undefined, "b">>]>>]}

\* the parsed JSON body of a 2xx response, by command
ResponseData(c, docs) ==
    {JsNull} \cup
    CASE c \in {"getIssueDetails", "getTask"} ->
            {[key |-> "PROJ-123", hasFields |-> FALSE, summary |-> Undefined,
              statusName |-> Undefined, assigneeName |-> Undefined,
              epicLink |-> Undefined,
              description |-> [defined |-> FALSE, hasContent |-> FALSE, content |-> <<>>]]}
            \cup {[key |-> "PROJ-123", hasFields |-> TRUE, summary |-> "Sum",
                   statusName |-> "Open", assigneeName |-> Undefined,
                   epicLink |-> "EPIC-1", description |-> d] : d \in docs}
      [] c \in {"createIssue", "createTask", "batchCreateIssues"} ->
            {[key |-> k] : k \in IssueKeys}
      [] c = "listTasks" -> {[issues |-> <<>>], [issues |-> <<"PROJ-1">>]}
      [] OTHER -> {[id |-> "10000"]}

Responses(c, docs) ==
    {[fetch |-> "rejected", ok |-> FALSE, status |-> "", text |-> "request failed",
      json |-> Throw("")],
     [fetch |-> "resolved", ok |-> FALSE, status |-> "404", text |-> "Not Found",
      json |-> Throw("")],
     [fetch |-> "resolved", ok |-> TRUE, status |-> "200", text |-> "",
      json |-> Throw("Unexpected end of JSON input")]}
    \cup {[fetch |-> "resolved", ok |-> TRUE, status |-> "200", text |-> "",
           json |-> Return(d)] : d \in ResponseData(c, docs)}

\* a request that changes the remote's issues when the remote accepts it
Mutating(req) ==
    req.method \in {"POST", "PUT", "DELETE"} /\ req.path # SearchPath

---------------------------------------------------------------------------
(* The commands: each run, split at its await *)

Proceed == [kind |-> "proceed"]
ErrorResult(m) == [error |-> TRUE, message |-> m]

\* a run without its catch: the Error goes on to the caller
CatchError_rethrow(c) == c

\* catch (e) { return { error: true, message: e.message } }
CatchError(c) == IF c.kind = "throw" THEN Return(ErrorResult(c.message)) ELSE c

\* catch (e) { return { error: true, message: e.message, summary: issue.summary } }
CatchItemError(c, summary) ==
    IF c.kind = "throw"
    THEN Return([error |-> TRUE, message |-> c.message, summary |-> summary])
    ELSE c

\* reading property p of null
TypeErrorNull(p) == Throw("Cannot read properties of null (reading '" \o p \o "')")

\* the two separators exchanged
FlattenDescription_swapped(doc) ==
    IF doc.defined /\ doc.hasContent
    THEN ArrayJoin([i \in 1..Len(doc.content) |->
                        IF doc.content[i].hasContent
                        THEN ArrayJoin(doc.content[i].content, "\n")
                        ELSE Undefined],
                   " ")
    ELSE Null

\* fields.description?.content ? content.map(c => c.content?.map(t => t.text).join(' ')).join('\n') : null
FlattenDescription(doc) ==
    IF doc.defined /\ doc.hasContent
    THEN ArrayJoin([i \in 1..Len(doc.content) |->
                        IF doc.content[i].hasContent
                        THEN ArrayJoin(doc.content[i].content, " ")
                        ELSE Undefined],
                   "\n")
    ELSE Null

\* getIssueDetails.run, the try block after await jiraApi.getIssue
getIssueDetails_try(c) ==
    IF c.kind = "throw" THEN c
    ELSE LET data == c.value IN
         IF data = JsNull THEN TypeErrorNull("fields")
         ELSE Return([key |-> data.key,
                      summary |-> data.summary,
                      status |-> data.statusName,
                      assignee |-> OrElse(data.assigneeName, Null),
                      description |-> IF data.hasFields
                                      THEN FlattenDescription(data.description)
                                      ELSE Null,
                      epicLink |-> OrElse(data.epicLink, Null),
                      subtasks |-> <<>>])

createIssue_validate(in) ==
    IF ~Truthy(in.projectKey) \/ ~Truthy(in.summary) \/ ~Truthy(in.issueType)
    THEN Return(ErrorResult("Missing required fields: projectKey, summary, or issueType"))
    ELSE Proceed

\* the URL built from the environment as it is, without getJiraConfig
BrowseUrl_unchecked(key, e) ==
    Return(OrElse(e.JIRA_BASE_URL, "") \o "/browse/" \o Str(key))

\* `${getJiraConfig().JIRA_BASE_URL}/browse/${key}`
BrowseUrl(key, e) ==
    LET cfg == getJiraConfig(e) IN
    IF cfg.kind = "throw" THEN cfg
    ELSE Return(cfg.value.JIRA_BASE_URL \o "/browse/" \o Str(key))

\* the URL without its /browse/ segment
createIssue_try_noBrowse(c, e) ==
    IF c.kind = "throw" THEN c
    ELSE LET issue == c.value IN
         IF issue = JsNull THEN TypeErrorNull("key")
         ELSE LET cfg == getJiraConfig(e) IN
              IF cfg.kind = "throw" THEN cfg
              ELSE Return([key |-> issue.key,
                           url |-> cfg.value.JIRA_BASE_URL \o "/" \o Str(issue.key)])

\* createIssue.run, the try block after await jiraApi.createIssue
createIssue_try(c, e) ==
    IF c.kind = "throw" THEN c
    ELSE LET issue == c.value IN
         IF issue = JsNull THEN TypeErrorNull("key")
         ELSE LET url == BrowseUrl(issue.key, e) IN
              IF url.kind = "throw" THEN url
              ELSE Return([key |-> issue.key, url |-> url.value])

\* the message without the transition id
transitionIssue_run_noTransition(in) ==
    Return([success |-> TRUE,
            message |-> "Transitioned issue " \o Str(in.issueIdOrKey) \o " (placeholder)"])

transitionIssue_run(in) ==
    Return([success |-> TRUE,
            message |-> "Transitioned issue " \o Str(in.issueIdOrKey)
                        \o " to transition " \o Str(in.transitionId) \o " (placeholder)"])

batchCreateIssues_validate(in) ==
    IF ~Truthy(in.projectKey) \/ ~in.issues.isArray \/ Len(in.issues.items) = 0
    THEN Return(ErrorResult("Missing projectKey or issues array is empty"))
    ELSE Proceed

\* the input each item's callback gives jiraApi.createIssue
batchCreateIssues_item(in, issue) ==
    [projectKey |-> in.projectKey, summary |-> issue.summary,
     description |-> issue.description, issueType |-> issue.issueType,
     assignee |-> issue.assignee, priority |-> Undefined, epicLink |-> Undefined,
     parent |-> Undefined]

\* an item's callback, the try block after await jiraApi.createIssue
batchCreateIssues_try(c, e) ==
    IF c.kind = "throw" THEN c
    ELSE LET created == c.value IN
         IF created = JsNull THEN TypeErrorNull("key")
         ELSE LET url == BrowseUrl(created.key, e) IN
              IF url.kind = "throw" THEN url
              ELSE Return([key |-> created.key, url |-> url.value, success |-> TRUE])

logWork_validate(in) ==
    IF ~Truthy(in.issueKey) \/ ~Truthy(in.timeSpent)
    THEN Return(ErrorResult("Missing required fields: issueKey or timeSpent"))
    ELSE Proceed

logWork_try(in, c) ==
    IF c.kind = "throw" THEN c
    ELSE Return([success |-> TRUE, message |-> "Worklog added to " \o Str(in.issueKey)])

\* the input createTask.run gives createIssue.run
createTask_input(in) ==
    [projectKey |-> in.projectKey, summary |-> in.summary,
     description |-> in.description, issueType |-> in.issueType,
     assignee |-> Undefined, priority |-> Undefined, epicLink |-> Undefined,
     parent |-> Undefined]

updateTask_try(in, c) ==
    IF c.kind = "throw" THEN c
    ELSE Return([success |-> TRUE, message |-> "Task updated", input |-> in])

deleteTask_try(in, c) ==
    IF c.kind = "throw" THEN c
    ELSE Return([success |-> TRUE, message |-> "Task deleted", input |-> in])

listTasks_try(c) ==
    IF c.kind = "throw" THEN c
    ELSE LET res == c.value IN
         IF res = JsNull THEN TypeErrorNull("issues")
         ELSE Return([success |-> TRUE, issues |-> res.issues])

\* what run returns before any jiraApi call, or Proceed
Validate(c, in) ==
    CASE c = "createIssue" -> createIssue_validate(in)
      [] c = "createTask" -> createIssue_validate(createTask_input(in))
      [] c = "transitionIssue" -> transitionIssue_run(in)
      [] c = "batchCreateIssues" -> batchCreateIssues_validate(in)
      [] c = "logWork" -> logWork_validate(in)
      [] OTHER -> Proceed

\* the jiraApi calls run makes, in order: each the request handed to fetch, or
\* the error thrown before it
Calls(c, in, e) ==
    CASE c \in {"getIssueDetails", "getTask"} -> <<jiraApi_getIssue(in.issueIdOrKey, e)>>
      [] c = "createIssue" -> <<jiraApi_createIssue(in, e)>>
      [] c = "createTask" -> <<jiraApi_createIssue(createTask_input(in), e)>>
      [] c = "batchCreateIssues" ->
            [i \in 1..Len(in.issues.items) |->
                jiraApi_createIssue(batchCreateIssues_item(in, in.issues.items[i]), e)]
      [] c = "logWork" -> <<jiraApi_addWorklog(in.issueKey, in.timeSpent, in.comment, e)>>
      [] c = "updateTask" -> <<jiraApi_updateIssue(in.issueIdOrKey, in.fields, e)>>
      [] c = "deleteTask" -> <<jiraApi_deleteIssue(in.issueIdOrKey, e)>>
      [] c = "listTasks" -> <<jiraApi_listIssues(in.jql, in.maxResults, e)>>

\* the rest of the async function that awaited call i, given what the call
\* completed with and the environment at that time
Resume(c, in, i, call, e) ==
    CASE c \in {"getIssueDetails", "getTask"} -> CatchError(getIssueDetails_try(call))
      [] c \in {"createIssue", "createTask"} -> CatchError(createIssue_try(call, e))
      [] c = "batchCreateIssues" ->
            CatchItemError(batchCreateIssues_try(call, e), in.issues.items[i].summary)
      [] c = "logWork" -> CatchError(logWork_try(in, call))
      [] c = "updateTask" -> CatchError(updateTask_try(in, call))
      [] c = "deleteTask" -> CatchError(deleteTask_try(in, call))
      [] c = "listTasks" -> CatchError(listTasks_try(call))

\* Promise.all: the values by position, or the rejection of a rejected promise
PromiseAll(outs) ==
    IF \E i \in 1..Len(outs) : outs[i].kind = "throw"
    THEN outs[CHOOSE i \in 1..Len(outs) : outs[i].kind = "throw"]
    ELSE Return([i \in 1..Len(outs) |-> outs[i].value])

\* what run completes with once every awaited promise has settled
Collect(c, outs) ==
    IF c = "batchCreateIssues" THEN PromiseAll(outs) ELSE outs[1]

\* an array filled in the order the promises settle
PlaceOutcome_byCompletion(outs, i, o) ==
    [outs EXCEPT ![CHOOSE k \in 1..Len(outs) :
                      outs[k] = Pending /\ \A j \in 1..(k - 1) : outs[j] # Pending] = o]

\* the array Promise.all fills: the outcome of promise i goes to position i
PlaceOutcome(outs, i, o) == [outs EXCEPT ![i] = o]

---------------------------------------------------------------------------
(* The state machine *)

NoRequest == [url |-> "", path |-> "", method |-> Undefined, headers |-> EmptyObject,
              body |-> NoBody]
NoResponse == [fetch |-> "none", ok |-> FALSE, status |-> "", text |-> "",
               json |-> Throw("")]

\* a jiraRequest that calls fetch again when the response is not ok
FetchesAfter_retry(slot, r) == IF r.ok THEN slot.fetches ELSE slot.fetches + 1

\* the calls of fetch made for one jiraApi call once its response is in:
\* jiraRequest throws or returns, and calls fetch no more
FetchesAfter(slot, r) == slot.fetches

AllSettled(outs) == \A i \in 1..Len(outs) : outs[i] # Pending

Init ==
    /\ env \in Envs
    /\ pc = "idle"
    /\ cmd = "none"
    /\ input = EmptyObject
    /\ slots = <<>>
    /\ outcomes = <<>>
    /\ result = Pending
    /\ remote = 0

\* a caller invokes commands[c].run(in): the synchronous part of run
Invoke(c, in) ==
    /\ pc = "idle"
    /\ cmd' = c
    /\ input' = in
    /\ LET v == Validate(c, in)
           calls == IF v = Proceed THEN Calls(c, in, env) ELSE <<>>
           outs == [i \in 1..Len(calls) |->
                        IF calls[i].kind = "throw" THEN Resume(c, in, i, calls[i], env)
                        ELSE Pending]
       IN  /\ slots' = [i \in 1..Len(calls) |->
                            IF calls[i].kind = "return"
                            THEN [fetches |-> 1, req |-> calls[i].value,
                                  settled |-> FALSE, resp |-> NoResponse]
                            ELSE [fetches |-> 0, req |-> NoRequest,
                                  settled |-> TRUE, resp |-> NoResponse]]
           /\ outcomes' = outs
           /\ IF v # Proceed
              THEN result' = v /\ pc' = "done"
              ELSE IF AllSettled(outs)
                   THEN result' = Collect(c, outs) /\ pc' = "done"
                   ELSE result' = Pending /\ pc' = "waiting"
    /\ UNCHANGED <<env, remote>>

\* the remote answers request i (or the transport fails) and the awaiting
\* function resumes and runs to its end
Respond(i, r) ==
    /\ pc = "waiting"
    /\ i \in 1..Len(slots)
    /\ ~slots[i].settled
    /\ LET accepted == r.ok /\ Mutating(slots[i].req)
           outs == PlaceOutcome(outcomes, i,
                                Resume(cmd, input, i, jiraRequestAwait(r), env))
       IN  /\ accepted => remote < MaxRemoteOps
           /\ remote' = IF accepted THEN remote + 1 ELSE remote
           /\ slots' = [slots EXCEPT ![i].settled = TRUE, ![i].resp = r,
                                     ![i].fetches = FetchesAfter(slots[i], r)]
           /\ outcomes' = outs
           /\ IF AllSettled(outs)
              THEN result' = Collect(cmd, outs) /\ pc' = "done"
              ELSE result' = Pending /\ pc' = "waiting"
    /\ UNCHANGED <<env, cmd, input>>

\* the caller has the result; the invocation is over
Finish ==
    /\ pc = "done"
    /\ pc' = "idle"
    /\ cmd' = "none"
    /\ input' = EmptyObject
    /\ slots' = <<>>
    /\ outcomes' = <<>>
    /\ result' = Pending
    /\ UNCHANGED <<env, remote>>

\* the process environment changes between two steps of the program
ConfigChange(e) ==
    /\ e # env
    /\ env' = e
    /\ UNCHANGED <<pc, cmd, input, slots, outcomes, result, remote>>

Next ==
    \/ pc = "idle" /\ \E c \in Commands : \E in \in Inputs(c) : Invoke(c, in)
    \/ pc = "waiting" /\ \E i \in 1..Len(slots) :
                            \E r \in Responses(cmd, SampleDocs) : Respond(i, r)
    \/ Finish
    \/ \E e \in Envs : ConfigChange(e)

Spec == Init /\ [][Next]_vars

\* getIssueDetails alone, over every description within the bounds
NextDescription ==
    \/ pc = "idle" /\ \E in \in Inputs("getIssueDetails") : Invoke("getIssueDetails", in)
    \/ pc = "waiting" /\ \E r \in Responses(cmd, Docs \cup SampleDocs) : Respond(1, r)
    \/ Finish

SpecDescription == Init /\ [][NextDescription]_vars

---------------------------------------------------------------------------
(* Vocabulary of the properties *)

\* one of the three configuration values is absent or empty
AnyConfigValueMissing(e) ==
    \/ e.JIRA_BASE_URL \in {Undefined, ""}
    \/ e.JIRA_EMAIL \in {Undefined, ""}
    \/ e.JIRA_API_TOKEN \in {Undefined, ""}

\* s has t as a substring
Contains(s, t) ==
    \E k \in 1..(Len(s) - Len(t) + 1) : SubSeq(s, k, k + Len(t) - 1) = t

IsBatch == cmd = "batchCreateIssues"
\* run got past its validation and made its jiraApi calls
Called == pc # "idle" /\ Validate(cmd, input) = Proceed
\* the HTTP requests sent in this invocation
FetchCount == Cardinality({i \in 1..Len(slots) : slots[i].fetches > 0})
Items == input.issues.items

\* {error: true, message} and nothing else
IsErrorObject(v) == DOMAIN v = {"error", "message"} /\ v.error = TRUE
\* {error: true, message, summary} and nothing else
IsItemError(v, summary) ==
    DOMAIN v = {"error", "message", "summary"} /\ v.error = TRUE /\ v.summary = summary
\* {key, url, success: true} and nothing else
IsItemSuccess(v) == DOMAIN v = {"key", "url", "success"} /\ v.success = TRUE

\* call i was answered, and the answer does not let jiraRequest return
CallFailed(sl) ==
    sl.settled /\ sl.fetches > 0 /\ (sl.resp.fetch = "rejected" \/ ~sl.resp.ok
                                     \/ sl.resp.json.kind = "throw")
\* the message of the Error jiraRequest throws on that answer
FailureMessage(sl) ==
    IF sl.resp.fetch = "rejected" THEN sl.resp.text
    ELSE IF ~sl.resp.ok THEN "Jira API error: " \o sl.resp.status \o " " \o sl.resp.text
    ELSE sl.resp.json.message
\* the call was answered with a 2xx response carrying a JSON object
AnsweredWithObject(sl) ==
    sl.settled /\ sl.fetches > 0 /\ sl.resp.fetch = "resolved" /\ sl.resp.ok
    /\ sl.resp.json.kind = "return" /\ sl.resp.json.value # JsNull
\* the create request was answered with a 2xx response carrying the issue
CreateSucceeded(sl) == AnsweredWithObject(sl)
CreatedKey(sl) == sl.resp.json.value.key

\* this step is the answer to call i of the invocation in progress
Answered(i) ==
    /\ pc = "waiting"
    /\ i \in 1..Len(slots)
    /\ ~slots[i].settled
    /\ slots'[i].settled
\* this step is the invocation of a command
Invoked == pc = "idle" /\ pc' # "idle"

---------------------------------------------------------------------------
(* C1 *)

\* C1: for every command but transitionIssue, an input that leaves a
\* parameter declared required: true missing or empty makes run return an
\* object with error: true, and no HTTP request is sent in that invocation.
C1_MissingRequiredShortCircuits ==
    (pc # "idle" /\ cmd # "transitionIssue" /\ MissingRequired(cmd, input)) =>
        /\ FetchCount = 0
        /\ pc = "done" =>
              /\ result.kind = "return"
              /\ "error" \in DOMAIN result.value /\ result.value.error = TRUE

---------------------------------------------------------------------------
(* C2 *)

\* C2: whatever the remote answers and whatever the configuration holds, run
\* completes by returning a structured object (batchCreateIssues: a sequence
\* of them), never by throwing; and every failure the API client raises is
\* returned as {error: true, message} carrying the failure's message.
C2_FailuresAreReturned ==
    /\ pc = "done" =>
        /\ result.kind = "return"
        /\ (Called /\ ~IsBatch) => result.value = outcomes[1].value
        /\ (Called /\ IsBatch) =>
              /\ Len(result.value) = Len(Items)
              /\ \A i \in 1..Len(Items) : result.value[i] = outcomes[i].value
    /\ \A i \in 1..Len(slots) :
        /\ slots[i].settled => outcomes[i].kind = "return"
        /\ CallFailed(slots[i]) =>
              /\ outcomes[i].value.error = TRUE
              /\ outcomes[i].value.message = FailureMessage(slots[i])
              /\ ~IsBatch => IsErrorObject(outcomes[i].value)
        /\ (slots[i].settled /\ slots[i].fetches = 0) =>
              /\ outcomes[i].value.error = TRUE
              /\ outcomes[i].value.message = ConfigErrorMessage

\* C2 witness: updateTask was answered 404 and returned the error object
C2_Witness ==
    /\ pc = "done" /\ cmd = "updateTask"
    /\ CallFailed(slots[1]) /\ slots[1].resp.status = "404"
    /\ result = Return(ErrorResult("Jira API error: 404 Not Found"))

---------------------------------------------------------------------------
(* C3 *)

\* the outcome batchCreateIssues owes item i once its create was answered,
\* under the environment e in which the item's callback resumed
ItemOutcomeOwed(sl, summary, e, v) ==
    IF CreateSucceeded(sl) /\ ~AnyConfigValueMissing(e)
    THEN v = [key |-> CreatedKey(sl),
              url |-> e.JIRA_BASE_URL \o "/browse/" \o CreatedKey(sl),
              success |-> TRUE]
    ELSE IsItemError(v, summary)

\* C3 as stated: batchCreateIssues with a projectKey and n >= 1 items returns
\* n outcomes, position i being {key, url, success: true} when item i's
\* create succeeded and {error: true, message, summary} with item i's summary
\* when it failed.
C3_OutcomeFollowsCreate ==
    (pc = "done" /\ IsBatch /\ Called) =>
        /\ result.kind = "return"
        /\ Len(result.value) = Len(Items)
        /\ \A i \in 1..Len(Items) :
              IF CreateSucceeded(slots[i])
              THEN /\ IsItemSuccess(result.value[i])
                   /\ result.value[i].key = CreatedKey(slots[i])
              ELSE IsItemError(result.value[i], Items[i].summary)

\* C3 amended: the same, with {key, url, success: true} owed only when the
\* configuration is also present as the item's URL is built, and the error
\* outcome otherwise; an item's outcome, once settled, is not changed by the
\* answers to the other items, in whatever order they come.
C3_OutcomeFollowsCreateAndConfig ==
    /\ [](  (pc = "done" /\ IsBatch /\ Called) =>
              /\ result.kind = "return"
              /\ Len(result.value) = Len(Items)
              /\ \A i \in 1..Len(Items) :
                    /\ result.value[i] = outcomes[i].value
                    /\ IsItemSuccess(result.value[i])
                       \/ IsItemError(result.value[i], Items[i].summary)
                    /\ IsItemSuccess(result.value[i]) =>
                          /\ CreateSucceeded(slots[i])
                          /\ result.value[i].key = CreatedKey(slots[i])  )
    /\ [][ (IsBatch /\ pc = "waiting") =>
              \A i \in 1..Len(Items) :
                  /\ (outcomes[i] = Pending /\ outcomes'[i] # Pending) =>
                        /\ outcomes'[i].kind = "return"
                        /\ ItemOutcomeOwed(slots'[i], Items[i].summary, env,
                                           outcomes'[i].value)
                  /\ outcomes[i] # Pending => outcomes'[i] = outcomes[i]
         ]_vars
    /\ [][ (Invoked /\ cmd' = "batchCreateIssues" /\ Validate(cmd', input') = Proceed) =>
              /\ Len(outcomes') = Len(input'.issues.items)
              /\ \A i \in 1..Len(outcomes') :
                    \/ outcomes'[i] = Pending /\ slots'[i].fetches = 1
                    \/ /\ outcomes'[i].kind = "return"
                       /\ IsItemError(outcomes'[i].value, input'.issues.items[i].summary)
         ]_vars

\* C3 witness: two items, answered second first; the first failed and the
\* second was created
C3_Witness ==
    /\ pc = "done" /\ IsBatch /\ Called /\ Len(Items) = 2
    /\ CallFailed(slots[1]) /\ CreateSucceeded(slots[2])
    /\ IsItemError(result.value[1], Items[1].summary)
    /\ IsItemSuccess(result.value[2])
    /\ Items[1].summary # Items[2].summary

---------------------------------------------------------------------------
(* C4 *)

\* C4: when one of the three configuration values is absent or empty as a
\* command makes its jiraApi calls, no HTTP request is sent for any of them
\* and the command returns {error: true, message} carrying the configuration
\* error (batchCreateIssues: for every item, with the item's summary).
C4_MissingConfigSendsNothing ==
    [][ (Invoked /\ AnyConfigValueMissing(env) /\ Validate(cmd', input') = Proceed) =>
          /\ Len(slots') >= 1
          /\ \A i \in 1..Len(slots') : slots'[i].fetches = 0 /\ slots'[i].req = NoRequest
          /\ pc' = "done"
          /\ result'.kind = "return"
          /\ IF cmd' = "batchCreateIssues"
             THEN /\ Len(result'.value) = Len(input'.issues.items)
                  /\ \A i \in 1..Len(result'.value) :
                        result'.value[i] = [error |-> TRUE, message |-> ConfigErrorMessage,
                                            summary |-> input'.issues.items[i].summary]
             ELSE result'.value = [error |-> TRUE, message |-> ConfigErrorMessage]
      ]_vars

\* C4 witness: deleteTask ran with the e-mail alone missing; nothing was sent
C4_Witness ==
    /\ pc = "done" /\ cmd = "deleteTask"
    /\ env.JIRA_EMAIL = "" /\ env.JIRA_BASE_URL = BaseUrl /\ env.JIRA_API_TOKEN = Token
    /\ FetchCount = 0
    /\ result = Return(ErrorResult(ConfigErrorMessage))

---------------------------------------------------------------------------
(* C5 *)

\* C5: createIssue with projectKey, summary and issueType present, the
\* configuration present, and a 2xx answer carrying key K, sends exactly one
\* create request and returns exactly {key: K, url: base URL + "/browse/" + K}.
C5_CreateIssueReturnsKeyAndUrl ==
    [][ (cmd = "createIssue" /\ Answered(1) /\ CreateSucceeded(slots'[1])
         /\ ~AnyConfigValueMissing(env)) =>
          /\ Truthy(input.projectKey) /\ Truthy(input.summary) /\ Truthy(input.issueType)
          /\ Len(slots') = 1
          /\ slots'[1].fetches = 1
          /\ slots'[1].req.method = "POST"
          /\ slots'[1].req.path = "/rest/api/3/issue"
          /\ pc' = "done"
          /\ result' = Return([key |-> CreatedKey(slots'[1]),
                               url |-> env.JIRA_BASE_URL \o "/browse/"
                                       \o CreatedKey(slots'[1])])
      ]_vars

\* C5 witness: the example of the specification
C5_Witness ==
    /\ pc = "done" /\ cmd = "createIssue"
    /\ input.projectKey = "PROJ" /\ input.summary = "Test Ticket" /\ input.issueType = "Task"
    /\ input.description = Undefined
    /\ FetchCount = 1
    /\ result = Return([key |-> "PROJ-1", url |-> "https://jira.test/browse/PROJ-1"])

---------------------------------------------------------------------------
(* C6 *)

\* C6: for every input and every state of the remote and of the
\* configuration, transitionIssue.run returns {success: true, message} with a
\* message containing input.issueIdOrKey and input.transitionId, sends no HTTP
\* request and leaves the remote unchanged.
C6_TransitionIsAPlaceholder ==
    /\ [](  cmd = "transitionIssue" =>
              /\ pc = "done"
              /\ slots = <<>>
              /\ result.kind = "return"
              /\ DOMAIN result.value = {"success", "message"}
              /\ result.value.success = TRUE
              /\ Contains(result.value.message, Str(input.issueIdOrKey))
              /\ Contains(result.value.message, Str(input.transitionId))  )
    /\ [][ (cmd = "transitionIssue" \/ cmd' = "transitionIssue") => remote' = remote ]_vars

\* C6 witness: transitionIssue ran with the configuration missing
C6_Witness ==
    /\ pc = "done" /\ cmd = "transitionIssue"
    /\ AnyConfigValueMissing(env)
    /\ input.issueIdOrKey = "PROJ-123" /\ input.transitionId = "31"
    /\ result.value.message = "Transitioned issue PROJ-123 to transition 31 (placeholder)"

---------------------------------------------------------------------------
(* C7 *)

\* the text of a node, of a block and of a description, as the
\* specification words them
NodeText(n) == IF n = Undefined THEN "" ELSE n
RECURSIVE JoinedWith(_, _)
JoinedWith(texts, sep) ==
    IF Len(texts) = 0 THEN ""
    ELSE IF Len(texts) = 1 THEN Head(texts)
    ELSE Head(texts) \o sep \o JoinedWith(Tail(texts), sep)
BlockText(b) ==
    IF b.hasContent
    THEN JoinedWith([k \in 1..Len(b.content) |-> NodeText(b.content[k])], " ")
    ELSE ""
DescriptionText(doc) ==
    IF ~doc.defined \/ ~doc.hasContent THEN Null
    ELSE JoinedWith([k \in 1..Len(doc.content) |-> BlockText(doc.content[k])], "\n")

\* the issue a 2xx answer to call 1 carried
FetchedIssue == slots[1].resp.json.value

\* C7: getIssueDetails on a fetched issue returns as description null when
\* the remote description or its block sequence is absent, and otherwise the
\* blocks' texts joined with a newline, each the block's node texts joined
\* with one space.
C7_DescriptionIsFlattened ==
    (pc = "done" /\ cmd \in {"getIssueDetails", "getTask"} /\ AnsweredWithObject(slots[1])) =>
        /\ result.kind = "return"
        /\ result.value.key = FetchedIssue.key
        /\ result.value.description =
              IF FetchedIssue.hasFields THEN DescriptionText(FetchedIssue.description)
              ELSE Null

\* C7 witness: the example of the specification, [["a","b"],["c"]]
C7_Witness ==
    /\ pc = "done" /\ cmd = "getIssueDetails" /\ AnsweredWithObject(slots[1])
    /\ Len(FetchedIssue.description.content) = 2
    /\ FetchedIssue.description.content[1].content = <<"a", "b">>
    /\ FetchedIssue.description.content[2].content = <<"c">>
    /\ result.value.description = "a b\nc"

---------------------------------------------------------------------------
(* C8 *)

ReadCommands == {"getIssueDetails", "getTask", "listTasks"}

\* the one request a read command sends, written out from its input and the
\* configuration
ReadRequest(c, in, e) ==
    LET common == ("Authorization" :>
                      ("Basic " \o Base64(e.JIRA_EMAIL \o ":" \o e.JIRA_API_TOKEN)))
                  @@ ("Accept" :> "application/json")
    IN  IF c = "listTasks"
        THEN [url |-> e.JIRA_BASE_URL \o "/rest/api/3/search",
              path |-> "/rest/api/3/search",
              method |-> "POST",
              headers |-> common @@ ("Content-Type" :> "application/json"),
              body |-> [type |-> "string",
                        json |-> (IF in.jql = Undefined THEN <<>> ELSE "jql" :> in.jql)
                                 @@ (IF in.maxResults.defined /\ in.maxResults.n > 0
                                     THEN "maxResults" :> in.maxResults.n ELSE <<>>)]]
        ELSE [url |-> e.JIRA_BASE_URL \o "/rest/api/3/issue/"
                      \o (IF in.issueIdOrKey = Undefined THEN "undefined"
                          ELSE in.issueIdOrKey),
              path |-> "/rest/api/3/issue/"
                       \o (IF in.issueIdOrKey = Undefined THEN "undefined"
                           ELSE in.issueIdOrKey),
              method |-> Undefined,
              headers |-> common,
              body |-> [type |-> "undefined"]]

\* C8: getIssueDetails, getTask and listTasks never change the remote's
\* issues, and the request each sends is determined by its input and the
\* configuration alone (method, path, headers and body), whatever was called
\* before.
C8_ReadsAreReadOnlyAndRepeatable ==
    /\ [][ (cmd \in ReadCommands \/ cmd' \in ReadCommands) => remote' = remote ]_vars
    /\ [][ (Invoked /\ cmd' \in ReadCommands /\ ~AnyConfigValueMissing(env)) =>
              /\ Len(slots') = 1
              /\ slots'[1].fetches = 1
              /\ slots'[1].req = ReadRequest(cmd', input', env)
         ]_vars

\* C8 witness: listTasks returned issues after the remote had accepted changes
C8_Witness ==
    /\ pc = "done" /\ cmd = "listTasks" /\ remote = MaxRemoteOps
    /\ input.jql = "project=PROJ" /\ input.maxResults.n = 5
    /\ AnsweredWithObject(slots[1])
    /\ result.value.success = TRUE

---------------------------------------------------------------------------
(* C9 *)

\* the messages of the Errors jiraRequest throws on an answer
RequestFailureMessages ==
    {"request failed", "Jira API error: 404 Not Found", "Unexpected end of JSON input"}

\* C9: no command retries.  One invocation calls fetch at most once per
\* jiraApi call: once for a single command, once per item for
\* batchCreateIssues; after a request was answered, failed or not, no request
\* is sent for that invocation or item; a failure appears once in the
\* result, at the position of the call that failed.
C9_NoRetry ==
    /\ [](  pc # "idle" =>
              /\ Len(slots) <= (IF IsBatch /\ Called THEN Len(Items) ELSE 1)
              /\ \A i \in 1..Len(slots) : slots[i].fetches <= 1
              /\ (pc = "done" /\ Called /\ ~IsBatch /\ CallFailed(slots[1])) =>
                    result = Return(ErrorResult(FailureMessage(slots[1])))
              /\ (pc = "done" /\ Called /\ IsBatch) =>
                    \A i \in 1..Len(Items) :
                        /\ CallFailed(slots[i]) =>
                              /\ IsItemError(result.value[i], Items[i].summary)
                              /\ result.value[i].message = FailureMessage(slots[i])
                        /\ (IsItemError(result.value[i], Items[i].summary)
                            /\ result.value[i].message \in RequestFailureMessages) =>
                              CallFailed(slots[i])  )
    /\ [][ pc = "waiting" =>
              /\ Len(slots') = Len(slots)
              /\ \A i \in 1..Len(slots) :
                    /\ slots'[i].req = slots[i].req
                    /\ slots'[i].fetches = slots[i].fetches
                    /\ slots[i].settled => slots'[i] = slots[i]
         ]_vars

\* C9 witness: logWork was answered 404: one request, one error
C9_Witness ==
    /\ pc = "done" /\ cmd = "logWork" /\ Called
    /\ CallFailed(slots[1]) /\ ~slots[1].resp.ok /\ slots[1].resp.fetch = "resolved"
    /\ FetchCount = 1
    /\ result.value.error = TRUE

---------------------------------------------------------------------------
(* C10 *)

\* C10: the display URL is built from a second read of the configuration,
\* made after the create request was answered.  When the configuration has
\* gone missing by then, the remote has created the issue and yet createIssue
\* (or that item of batchCreateIssues) returns {error: true, message} with the
\* configuration error and no key or url; the other items keep their outcomes.
C10_UrlReadsConfigurationAgain ==
    [][ \A i \in 1..MaxItems :
          (cmd \in {"createIssue", "batchCreateIssues"} /\ Answered(i)
           /\ CreateSucceeded(slots'[i]) /\ AnyConfigValueMissing(env)) =>
              /\ slots[i].fetches = 1
              /\ remote' = remote + 1
              /\ outcomes'[i].kind = "return"
              /\ DOMAIN outcomes'[i].value =
                    (IF IsBatch THEN {"error", "message", "summary"}
                     ELSE {"error", "message"})
              /\ outcomes'[i].value.error = TRUE
              /\ outcomes'[i].value.message = ConfigErrorMessage
              /\ \A j \in 1..Len(outcomes) : j # i => outcomes'[j] = outcomes[j]
              /\ ~IsBatch => result' = outcomes'[i]
      ]_vars

\* C10 witness: a batch of two; the configuration went missing between the
\* two answers, so the first item has its key and the second, created as
\* well, has the configuration error
C10_Witness ==
    /\ pc = "done" /\ IsBatch /\ Called /\ Len(Items) = 2
    /\ CreateSucceeded(slots[1]) /\ CreateSucceeded(slots[2])
    /\ IsItemSuccess(result.value[1])
    /\ result.value[2] = [error |-> TRUE, message |-> ConfigErrorMessage,
                          summary |-> Items[2].summary]

=============================================================================
